---- MODULE Spec2Model ----
(***************************************************************************)
(* Model of build_subset in                                                *)
(* src/nemo_curator_semantic_dedup/laion_prepare.py: the shard             *)
(* consolidation loop that sorts the shard paths, resolves the requested   *)
(* columns against each shard's schema, truncates to the row cap and       *)
(* appends one batch per shard to a lazily opened Parquet writer.          *)
(*                                                                         *)
(* Strings (paths and column names) are sequences of ASCII code points, so *)
(* that str.lower, str.upper and the ordering used by sorted() are         *)
(* computed character by character.  Library calls (read_schema,           *)
(* read_table, ParquetWriter, write_table) are taken to succeed.           *)
(***************************************************************************)
EXTENDS Integers, Sequences, FiniteSets, TLC

VARIABLES
    shard_paths,    \* argument: the list of local paths, in caller order
    max_rows,       \* argument: the row cap, 0 = unlimited
    columns,        \* argument: the requested column names, in order
    files,          \* the shards on disk: path -> [names, num_rows]
    pc,             \* position in build_subset
    order,          \* sorted(shard_paths), the list the for loop iterates
    idx,            \* 1-based position of the for loop in order
    resolved_cols,  \* local resolved_cols of the current iteration
    writer,         \* local writer: "None", "open" or "closed"
    writer_schema,  \* schema the ParquetWriter was constructed with
    rows_written,   \* local rows_written
    output,         \* batches appended to out_parquet, in write order
    file_exists,    \* whether this run has created out_parquet
    events,         \* writer life cycle: "open", "write", "close" in order
    reads,          \* every pq.read_schema call: path and rows_written then
    outcome         \* "running", "final", "no_data" or "ValueError"

vars == <<shard_paths, max_rows, columns, files, pc, order, idx, resolved_cols,
          writer, writer_schema, rows_written, output, file_exists, events,
          reads, outcome>>

inputs == <<shard_paths, max_rows, columns, files>>

(***************************************************************************)
(* Bounds of the model.                                                    *)
(***************************************************************************)
MaxShards == 3
MaxShardRows == 2
MaxCap == 3
MaxCols == 2

(***************************************************************************)
(* Strings as code points.                                                 *)
(***************************************************************************)
S_URL == <<85, 82, 76>>
S_url == <<117, 114, 108>>
S_TEXT == <<84, 69, 88, 84>>
S_Text == <<84, 101, 120, 116>>
S_text == <<116, 101, 120, 116>>
S_caption == <<99, 97, 112, 116, 105, 111, 110>>
S_id == <<105, 100>>

P_B == <<66>>
P_a == <<97>>
P_ab == <<97, 98>>

LowerChar(c) == IF c >= 65 /\ c <= 90 THEN c + 32 ELSE c

UpperChar(c) == IF c >= 97 /\ c <= 122 THEN c - 32 ELSE c

Lower(s) == [i \in DOMAIN s |-> LowerChar(s[i])]

Upper(s) == [i \in DOMAIN s |-> UpperChar(s[i])]

(***************************************************************************)
(* Python's str ordering: code point by code point, a proper prefix first. *)
(***************************************************************************)
RECURSIVE StrLess(_, _)
StrLess(s, t) ==
    IF t = <<>> THEN FALSE
    ELSE IF s = <<>> THEN TRUE
    ELSE IF s[1] < t[1] THEN TRUE
    ELSE IF s[1] > t[1] THEN FALSE
    ELSE StrLess(Tail(s), Tail(t))

\* Insert x into an ascending list after every element that is not greater.
RECURSIVE Insert(_, _)
Insert(x, s) ==
    IF s = <<>> THEN <<x>>
    ELSE IF StrLess(x, s[1]) THEN <<x>> \o s
    ELSE <<s[1]>> \o Insert(x, Tail(s))

RECURSIVE SortFrom(_, _)
SortFrom(acc, s) ==
    IF s = <<>> THEN acc ELSE SortFrom(Insert(s[1], acc), Tail(s))

Unsorted(s) == s

\* sorted(shard_paths)
Sorted(s) == SortFrom(<<>>, s)

(***************************************************************************)
(* Column resolution, lines 57-68: what one requested name appends to      *)
(* resolved_cols, and the loop over the request.                           *)
(***************************************************************************)
ResolveColExactText(col, available) ==
    IF col \in available THEN <<col>>
    ELSE IF Lower(col) \in available THEN <<Lower(col)>>
    ELSE IF col = S_TEXT /\ S_caption \in available THEN <<S_caption>>
    ELSE <<>>

ResolveCol(col, available) ==
    IF col \in available THEN <<col>>
    ELSE IF Lower(col) \in available THEN <<Lower(col)>>
    ELSE IF Upper(col) = S_TEXT /\ S_caption \in available THEN <<S_caption>>
    ELSE <<>>

RECURSIVE ResolveFrom(_, _, _)
ResolveFrom(acc, cols, available) ==
    IF cols = <<>> THEN acc
    ELSE ResolveFrom(acc \o ResolveCol(cols[1], available), Tail(cols), available)

ResolveColumns(cols, available) == ResolveFrom(<<>>, cols, available)

(***************************************************************************)
(* Lines 74-75: the number of rows of the table after the optional slice.  *)
(***************************************************************************)
NoTruncate(num_rows, written, cap) == num_rows

DropShard(num_rows, written, cap) ==
    IF cap # 0 /\ written + num_rows > cap THEN 0 ELSE num_rows

TruncateAlways(num_rows, written, cap) ==
    IF written + num_rows > cap
    THEN (IF cap - written > 0 THEN cap - written ELSE 0)
    ELSE num_rows

Truncate(num_rows, written, cap) ==
    IF cap # 0 /\ written + num_rows > cap THEN cap - written ELSE num_rows

(***************************************************************************)
(* Line 84: the break condition.                                           *)
(***************************************************************************)
BreakWhenOver(written, cap) == cap # 0 /\ written > cap

CapReached(written, cap) == cap # 0 /\ written >= cap

(***************************************************************************)
(* Line 77: whether the writer has to be constructed before the write.    *)
(***************************************************************************)
AlwaysOpen(w) == TRUE

NeedsOpen(w) == w = "None"

(***************************************************************************)
(* Input spaces.                                                           *)
(***************************************************************************)
Paths == {P_B, P_a, P_ab}

SeqsUpTo(S, n) == UNION {[1..k -> S] : k \in 0..n}

Schemas == {{S_url, S_caption}, {S_URL, S_TEXT}, {S_id}}

Requests == {<<S_URL, S_TEXT>>, <<S_text, S_id>>}

NameUniverse == {S_URL, S_url, S_TEXT, S_text, S_caption, S_id}

RequestNames == {S_URL, S_url, S_TEXT, S_Text, S_caption}

\* Lines 49-50 with the file created ahead of the loop.
EagerStartState ==
    /\ pc = "start"
    /\ order = <<>>
    /\ idx = 1
    /\ resolved_cols = <<>>
    /\ writer = "open"
    /\ writer_schema = <<>>
    /\ rows_written = 0
    /\ output = <<>>
    /\ file_exists = TRUE
    /\ events = <<"open">>
    /\ reads = <<>>
    /\ outcome = "running"

\* Lines 49-50: the locals on entry; nothing is open, nothing is written.
StartState ==
    /\ pc = "start"
    /\ order = <<>>
    /\ idx = 1
    /\ resolved_cols = <<>>
    /\ writer = "None"
    /\ writer_schema = <<>>
    /\ rows_written = 0
    /\ output = <<>>
    /\ file_exists = FALSE
    /\ events = <<>>
    /\ reads = <<>>
    /\ outcome = "running"

\* A call of build_subset over any list of shards, cap and request.
Init ==
    /\ shard_paths \in SeqsUpTo(Paths, MaxShards)
    /\ max_rows \in 0..MaxCap
    /\ columns \in Requests
    /\ files \in [Paths -> [names : Schemas, num_rows : 0..MaxShardRows]]
    /\ StartState

\* A call over one shard with any schema and any request.
ResolveInit ==
    /\ shard_paths = <<P_a>>
    /\ max_rows = 0
    /\ columns \in SeqsUpTo(RequestNames, MaxCols)
    /\ \E names \in SUBSET NameUniverse :
          files = [p \in Paths |-> [names |-> names, num_rows |-> 1]]
    /\ StartState

(***************************************************************************)
(* Actions.                                                                *)
(***************************************************************************)
\* Line 52: sorted(shard_paths) is evaluated once, before the first iteration.
SortPaths ==
    /\ pc = "start"
    /\ order' = Sorted(shard_paths)
    /\ pc' = "loop"
    /\ UNCHANGED <<inputs, idx, resolved_cols, writer, writer_schema,
                   rows_written, output, file_exists, events, reads, outcome>>

\* Lines 52-68: take the next path, read its schema, resolve the request.
ReadSchema ==
    /\ pc = "loop"
    /\ idx <= Len(order)
    /\ reads' = Append(reads, [path |-> order[idx], written |-> rows_written])
    /\ resolved_cols' = ResolveColumns(columns, files[order[idx]].names)
    /\ pc' = "resolved"
    /\ UNCHANGED <<inputs, order, idx, writer, writer_schema, rows_written,
                   output, file_exists, events, outcome>>

\* Lines 70-71 turned into a skip of the shard.
SkipUnresolved ==
    /\ pc = "resolved"
    /\ resolved_cols = <<>>
    /\ pc' = "loop"
    /\ idx' = idx + 1
    /\ UNCHANGED <<inputs, order, resolved_cols, writer, writer_schema,
                   rows_written, output, file_exists, events, reads, outcome>>

\* Lines 70-71: nothing resolved, ValueError leaves build_subset.
RaiseUnresolved ==
    /\ pc = "resolved"
    /\ resolved_cols = <<>>
    /\ pc' = "raised"
    /\ outcome' = "ValueError"
    /\ UNCHANGED <<inputs, order, idx, resolved_cols, writer, writer_schema,
                   rows_written, output, file_exists, events, reads>>

\* Lines 73-85: read the projection, slice to the cap, open the writer if
\* there is none, append the batch, count it, break on a reached cap.
WriteShard ==
    /\ pc = "resolved"
    /\ resolved_cols # <<>>
    /\ LET path == order[idx]
           n == Truncate(files[path].num_rows, rows_written, max_rows)
           open == NeedsOpen(writer)
       IN  /\ writer' = "open"
           /\ writer_schema' = IF open THEN resolved_cols ELSE writer_schema
           /\ file_exists' = TRUE
           /\ events' = IF open THEN events \o <<"open", "write">>
                                      ELSE Append(events, "write")
           /\ output' = Append(output, [path |-> path, cols |-> resolved_cols,
                                        offset |-> 0, rows |-> n])
           /\ rows_written' = rows_written + n
           /\ IF CapReached(rows_written + n, max_rows)
              THEN pc' = "finish" /\ idx' = idx
              ELSE pc' = "loop" /\ idx' = idx + 1
    /\ UNCHANGED <<inputs, order, resolved_cols, reads, outcome>>

\* Lines 87-91, after the break or after the last path.
Finalize ==
    /\ \/ pc = "finish"
       \/ pc = "loop" /\ idx > Len(order)
    /\ pc' = "done"
    /\ IF writer # "None"
       THEN /\ writer' = "closed"
            /\ events' = Append(events, "close")
            /\ outcome' = "final"
       ELSE /\ outcome' = "no_data"
            /\ UNCHANGED <<writer, events>>
    /\ UNCHANGED <<inputs, order, idx, resolved_cols, writer_schema,
                   rows_written, output, file_exists, reads>>

Next ==
    \/ SortPaths
    \/ ReadSchema
    \/ RaiseUnresolved
    \/ WriteShard
    \/ Finalize

Spec == Init /\ [][Next]_vars

ResolveSpec == ResolveInit /\ [][Next]_vars

(***************************************************************************)
(* Vocabulary of the properties.                                           *)
(***************************************************************************)
Min(a, b) == IF a <= b THEN a ELSE b

RECURSIVE SumRows(_)
SumRows(batches) ==
    IF batches = <<>> THEN 0 ELSE batches[1].rows + SumRows(Tail(batches))

RECURSIVE TotalRows(_)
TotalRows(paths) ==
    IF paths = <<>> THEN 0 ELSE files[paths[1]].num_rows + TotalRows(Tail(paths))

Occurrences(s, x) == Cardinality({i \in DOMAIN s : s[i] = x})

Ascending(s) == \A i \in 1..Len(s), j \in 1..Len(s) : i < j => ~StrLess(s[j], s[i])

\* No step of the precedence gives a name of the schema for any requested name.
NoneResolves(cols, available) ==
    \A i \in DOMAIN cols :
        /\ cols[i] \notin available
        /\ Lower(cols[i]) \notin available
        /\ ~(Upper(cols[i]) = S_TEXT /\ S_caption \in available)

\* The precedence for one requested name; <<>> stands for "dropped".
Precedence(c, available) ==
    CASE c \in available -> c
      [] c \notin available /\ Lower(c) \in available -> Lower(c)
      [] c \notin available /\ Lower(c) \notin available
         /\ Upper(c) = S_TEXT /\ S_caption \in available -> S_caption
      [] OTHER -> <<>>

Kept(name) == name # <<>>

Finished == pc \in {"done", "raised"}

\* C1: with a positive cap the rows written never exceed the cap, in any
\* state of the run, whether counted by rows_written or in the output.
C1_RowsWithinCap ==
    max_rows > 0 => rows_written <= max_rows /\ SumRows(output) <= max_rows

C1_Witness ==
    /\ max_rows > 0
    /\ rows_written = max_rows
    /\ Len(output) >= 2
    /\ output[Len(output)].rows < files[output[Len(output)].path].num_rows

\* C2: the list iterated is the input list rearranged into ascending path
\* order (so it is the same for every permutation of the input), and schema
\* reads and written batches follow that order.
C2_AscendingPathOrder ==
    /\ pc # "start" =>
          /\ Len(order) = Len(shard_paths)
          /\ \A p \in Paths : Occurrences(order, p) = Occurrences(shard_paths, p)
          /\ Ascending(order)
    /\ \A i \in 1..Len(reads) : reads[i].path = order[i]
    /\ \A i \in 1..Len(output) : output[i].path = order[i]
    /\ \A i \in 1..Len(output), j \in 1..Len(output) :
          StrLess(output[i].path, output[j].path) => i < j

C2_Witness ==
    /\ shard_paths = <<P_ab, P_a, P_B>>
    /\ pc = "done"
    /\ Len(output) = 3
    /\ output[1].path = P_B /\ output[2].path = P_a /\ output[3].path = P_ab

\* C3: with a positive cap every written batch holds the first
\* min(shard rows, cap - rows written before it) rows of its shard, no read
\* shard is left out, and a run that ends normally has written
\* min(cap, sum of the row counts of all shards) rows.
C3_TruncateToBudget ==
    max_rows > 0 =>
        /\ \A i \in 1..Len(output) :
              /\ output[i].offset = 0
              /\ output[i].rows = Min(files[order[i]].num_rows,
                                      max_rows - SumRows(SubSeq(output, 1, i - 1)))
        /\ pc = "done" =>
              /\ Len(output) = Len(reads)
              /\ rows_written = Min(max_rows, TotalRows(shard_paths))
              /\ SumRows(output) = rows_written

C3_Witness ==
    /\ pc = "done"
    /\ Len(shard_paths) = 2
    /\ files[shard_paths[1]].num_rows = 2 /\ files[shard_paths[2]].num_rows = 2
    /\ max_rows = 3
    /\ Len(output) = 2 /\ output[1].rows = 2 /\ output[2].rows = 1
    /\ rows_written = 3

\* C4: the resolved columns of the shard just read are the requested names
\* mapped by the precedence exact, lowercase, TEXT to caption, with the
\* dropped names left out and request order kept; all are schema names.
C4_ResolutionPrecedence ==
    reads # <<>> =>
        LET available == files[reads[Len(reads)].path].names
            mapped == [i \in DOMAIN columns |-> Precedence(columns[i], available)]
        IN  /\ resolved_cols = SelectSeq(mapped, Kept)
            /\ \A i \in DOMAIN resolved_cols : resolved_cols[i] \in available
            /\ (columns = <<S_URL, S_TEXT>> /\ available = {S_url, S_caption})
                  => resolved_cols = <<S_url, S_caption>>

C4_Witness ==
    /\ pc = "resolved"
    /\ columns = <<S_URL, S_TEXT>>
    /\ files[P_a].names = {S_url, S_caption}
    /\ resolved_cols = <<S_url, S_caption>>

C4_WitnessDrop ==
    /\ pc = "resolved"
    /\ columns = <<S_Text, S_url>>
    /\ files[P_a].names = {S_caption, S_id}
    /\ resolved_cols = <<S_caption>>

\* C5: no run ends, by return or by a raised failure, with the writer
\* opened and not closed.
C5_WriterReleasedOnEveryExit ==
    Finished => writer # "open"

\* C6: a shard is unresolvable exactly when the run stops at it with a
\* resolution failure: that shard and the later ones are neither written nor
\* read further, the batches of the earlier shards stay in the output, and a
\* shard with a resolvable name never raises.
C6_UnresolvableShardAborts ==
    /\ \A i \in 1..Len(reads) :
          NoneResolves(columns, files[reads[i].path].names) =>
              /\ i = Len(reads)
              /\ pc \in {"resolved", "raised"}
              /\ Len(output) = i - 1
    /\ pc = "raised" =>
          /\ outcome = "ValueError"
          /\ Len(reads) = idx
          /\ NoneResolves(columns, files[order[idx]].names)
          /\ Len(output) = idx - 1
          /\ \A i \in 1..(idx - 1) : output[i].path = order[i]
          /\ rows_written = SumRows(output)
          /\ file_exists = (idx > 1)
    /\ pc = "done" => outcome # "ValueError"

C6_Witness ==
    /\ pc = "raised"
    /\ idx = 2
    /\ Len(order) = 3
    /\ rows_written > 0
    /\ ~NoneResolves(columns, files[order[3]].names)

\* C7: the output file exists only if some shard read so far passed column
\* resolution; a failure at the first shard leaves no rows and no file, and
\* an empty shard list ends normally with no file and "no data written".
C7_LazyOutputFile ==
    /\ file_exists =>
          \E i \in 1..Len(reads) : ~NoneResolves(columns, files[reads[i].path].names)
    /\ (pc = "raised" /\ idx = 1) =>
          ~file_exists /\ rows_written = 0 /\ output = <<>>
    /\ shard_paths = <<>> =>
          /\ ~file_exists
          /\ pc # "raised"
          /\ pc = "done" => outcome = "no_data"

C7_Witness ==
    /\ pc = "raised"
    /\ idx = 1
    /\ Len(order) >= 2
    /\ ~file_exists
    /\ ~NoneResolves(columns, files[order[2]].names)

C7_WitnessEmpty ==
    /\ pc = "done"
    /\ shard_paths = <<>>
    /\ outcome = "no_data"

\* C8: with the cap 0 the loop never breaks and no batch is shorter than
\* its shard, so a run that ends normally has written every row of every
\* shard of the list.
C8_CapDisabled ==
    max_rows = 0 =>
        /\ pc # "finish"
        /\ \A i \in 1..Len(output) : output[i].rows = files[output[i].path].num_rows
        /\ pc = "done" =>
              /\ Len(output) = Len(shard_paths)
              /\ rows_written = TotalRows(shard_paths)

C8_Witness ==
    /\ max_rows = 0
    /\ pc = "done"
    /\ Len(output) = 3
    /\ rows_written > MaxCap

\* C9: with a positive cap no schema is read once rows_written has reached
\* the cap, so the shards after the one that filled the cap are never
\* resolved; a truncated batch has at least one row; a run that ends
\* normally below the cap (or with no cap) has read every shard.
C9_StopAtCap ==
    /\ max_rows > 0 =>
          /\ \A i \in 1..Len(reads) : reads[i].written < max_rows
          /\ pc \in {"loop", "resolved"} => rows_written < max_rows
          /\ \A i \in 1..Len(output) :
                output[i].rows < files[output[i].path].num_rows => output[i].rows >= 1
          /\ rows_written >= max_rows =>
                /\ pc \in {"finish", "done"}
                /\ Len(reads) = Len(output)
    /\ (pc = "done" /\ (max_rows = 0 \/ rows_written < max_rows)) =>
          Len(reads) = Len(order)

C9_Witness ==
    /\ pc = "done"
    /\ max_rows > 0
    /\ rows_written = max_rows
    /\ Len(reads) = 1
    /\ Len(order) = 3
    /\ NoneResolves(columns, files[order[2]].names)
    /\ output[1].rows < files[order[1]].num_rows

\* C10: the writer is opened at most once, by the first written batch,
\* whose columns are its schema; every write happens while it is open; a
\* run that returns with an opened writer has closed it exactly once, as
\* the last event, after the cap was reached or the input was exhausted.
C10_WriterOpenedAndClosedOnce ==
    /\ \A i \in 1..Len(events) : (events[i] = "open") = (i = 1)
    /\ \A i \in 1..Len(events) : events[i] = "close" => (i = Len(events) /\ pc = "done")
    /\ Occurrences(events, "write") = Len(output)
    /\ output # <<>> => writer_schema = output[1].cols
    /\ pc = "done" =>
          /\ events # <<>> => events[Len(events)] = "close"
          /\ \/ max_rows > 0 /\ rows_written >= max_rows
             \/ Len(reads) = Len(order)

C10_Witness ==
    /\ pc = "done"
    /\ events = <<"open", "write", "write", "close">>
    /\ Len(output) = 2
    /\ writer_schema = output[1].cols

====
